---- MODULE Spec2Model ----
(***************************************************************************)
(* The article routes of app/api/articles.ts (a Hono application with five *)
(* handlers) over the article repository the handlers reach through        *)
(* c.var.repositories.                                                     *)
(*                                                                         *)
(* Every handler is an async function: it runs up to an `await` of one     *)
(* repository call, and other requests may run while it is suspended.      *)
(* GET /:id, GET / and POST / await once, so each is one step.  PUT /:id   *)
(* and DELETE /:id await twice (findById, then update or delete), so each  *)
(* is two steps and `inflight` holds the requests suspended between them.  *)
(*                                                                         *)
(* An optional value (a missing query field, a missing body key, the       *)
(* `undefined` findById returns for no record) is a sequence of length 0   *)
(* or 1.  The id 0 stands for the empty string.                            *)
(***************************************************************************)
EXTENDS Naturals, Sequences, FiniteSets, Bags

\* ------------------------------------------------------------------ bounds
MaxIds == 2          \* articles the repository may create in one run
MaxInFlight == 2     \* PUT/DELETE requests suspended at their second await

Ids == 1..MaxIds
EmptyId == 0
Titles == {"T", "T2"}
Authors == {"", "u1"}
ClientIds == {1}              \* an id a client may put into a JSON body
NewTitles == {"T2"}           \* the values a PUT body may carry
NewAuthors == {"u1"}

None == <<>>
Some(x) == <<x>>
Opt(S) == {None} \cup {Some(x) : x \in S}

\* ------------------------------------------------------------ data shapes
\* ArticleSchema (app/models/article): id plus the fields of the scenario.
Article == [id : Ids, title : Titles, authorId : Authors]

\* A JSON body as a client may send it: any key may be missing, and an id
\* key may be present although no route declares it.
Bodies == [id : Opt(ClientIds), title : Opt(Titles), authorId : Opt(Authors)]
\* The bodies PUT /:id is tried with: no key, or one field.
PutBodies == {b \in [id : Opt(ClientIds), title : Opt(NewTitles), authorId : Opt(NewAuthors)] :
                b.title = None \/ b.authorId = None}

NoData == [id |-> None, title |-> None, authorId |-> None]

\* Faulty variant: the id key of the input survives the parse.
KeepsId(body) == body

\* v.omit(ArticleSchema, ['id']): the parsed output carries the declared
\* keys only, so an id key of the input is dropped.
ArticleWithoutIdSchema(body) == [body EXCEPT !.id = None]

\* vValidator('json', ArticleWithoutIdSchema): every remaining key required.
ValidCreateBody(body) == body.title # None /\ body.authorId # None

\* vValidator('json', v.partial(ArticleWithoutIdSchema)): every key optional.
ValidUpdateBody(body) == TRUE

\* ArticleQuerySchema: authorId is an optional string.
Queries == Opt(Authors)

\* ------------------------------------------------------------- repository
\* The repository is an array of records in insertion order.
findById(s, id) ==
    LET hits == SelectSeq(s, LAMBDA a : a.id = id)
    IN  IF hits = <<>> THEN None ELSE Some(Head(hits))

findByAuthorId(s, authorId) == SelectSeq(s, LAMBDA a : a.authorId = authorId)

findAll(s) == s

\* create(data): the repository assigns the id; the other fields are data's.
created(n, data) == [id |-> n, title |-> data.title[1], authorId |-> data.authorId[1]]

create(s, n, data) == Append(s, created(n, data))

\* update(id, data): only the keys present in data change.
merged(a, data) ==
    [id |-> a.id,
     title |-> IF data.title = None THEN a.title ELSE data.title[1],
     authorId |-> IF data.authorId = None THEN a.authorId ELSE data.authorId[1]]

update(s, id, data) == [k \in DOMAIN s |-> IF s[k].id = id THEN merged(s[k], data) ELSE s[k]]

delete(s, id) == SelectSeq(s, LAMBDA a : a.id # id)

\* A record with this id is among the repository's records.
Exists(s, id) == \E k \in DOMAIN s : s[k].id = id
RecordOf(s, id) == s[CHOOSE k \in DOMAIN s : s[k].id = id]

\* ------------------------------------------------------------------ state
VARIABLES store, nextId, inflight, last, justDeleted, assigned, deleted

vars == <<store, nextId, inflight, last, justDeleted, assigned, deleted>>

\* store     the repository's records
\* nextId    the id the repository assigns next
\* inflight  bag of the PUT/DELETE requests suspended between their findById
\*           and their update/delete: [kind, id, data, found, threw]
\*           (found: a record with the id existed when findById ran;
\*           threw: that findById threw)
\* last      the request that has just completed, until Hono has sent its
\*           response (kind "NONE" otherwise): its input, its response,
\*           (data: what it handed to create or update),
\*           and what it did (found: a record with its id existed
\*           when its findById ran; failed: one of its repository calls threw;
\*           calls: the repository calls it issued, in order; pre: the
\*           repository's records when its final call ran; afterDelete: it is
\*           a GET /:id and the response before it was the 200 of a
\*           DELETE of the same id)
\* assigned  the ids POST / has answered with so far
\* deleted   the ids whose DELETE has answered 200 so far
\* justDeleted  the id of a DELETE whose 200 has been sent with no handler
\*           step of any request since, EmptyId otherwise

\* ------------------------------------------------------------- responses
Response(status, text, article, articles, message) ==
    [status |-> status, text |-> text, article |-> article,
     articles |-> articles, message |-> message]

\* Faulty variant: the 404 with another text.
NotFoundOtherText == [status |-> 404, text |-> "Not Found"]

\* c.text('Article not found', 404)
NotFoundReply == [status |-> 404, text |-> "Article not found"]

NotFoundResponse == Response(NotFoundReply.status, NotFoundReply.text, None, <<>>, "")

\* c.json({ article }, 200) and c.json({ article })
ArticleResponse(article) == Response(200, "", article, <<>>, "")

\* c.json({ articles })
ArticlesResponse(articles) == Response(200, "", None, articles, "")

\* c.json({ message: 'Article deleted successfully' })
DeletedResponse == Response(200, "", None, <<>>, "Article deleted successfully")

\* Hono's default error handler, which an exception leaving a handler reaches.
ErrorPath == Response(500, "Internal Server Error", None, <<>>, "")

NoResponse == Response(0, "", None, <<>>, "")

\* ------------------------------------------------------ handler decisions
\* The outcome of an awaited repository call: it returned value, or it threw.
Returned(value) == [ok |-> TRUE, value |-> value]
Thrown == [ok |-> FALSE, value |-> None]
Outcome(ok, value) == IF ok THEN Returned(value) ELSE Thrown

\* Faulty variant: a rejection is caught and the handler goes on with
\* `undefined`.
Swallows(outcome) == FALSE

\* `await` of a rejected promise throws, and no handler has a try/catch.
Threw(outcome) == ~outcome.ok

\* Faulty variants: the test inverted, and the test left out.
IsDefined(article) == article # None
NeverUndefined(article) == FALSE

\* `if (!article)`, GET /:id
GetNotFound(article) == article = None

\* `if (!existingArticle)`, PUT /:id
PutNotFound(existingArticle) == existingArticle = None

\* `if (!existingArticle)`, DELETE /:id
DeleteNotFound(existingArticle) == existingArticle = None

\* `authorId ? findByAuthorId(authorId) : findAll()`: the empty string is falsy.
UseFilter(authorId) == authorId # None /\ authorId[1] # ""

\* GET /:id after its await
GetByIdReply(outcome) ==
    IF Threw(outcome) THEN ErrorPath
    ELSE IF GetNotFound(outcome.value) THEN NotFoundResponse
    ELSE ArticleResponse(outcome.value)

\* GET / after its await
ListReply(outcome) ==
    IF Threw(outcome) THEN ErrorPath ELSE ArticlesResponse(outcome.value)

\* POST / after its await
CreateReply(outcome) ==
    IF Threw(outcome) THEN ErrorPath ELSE ArticleResponse(outcome.value)

\* Faulty variant: update's result is tested like findById's.
UpdateReplyRechecks(outcome) ==
    IF Threw(outcome) THEN ErrorPath
    ELSE IF outcome.value = None THEN NotFoundResponse
    ELSE ArticleResponse(outcome.value)

\* PUT /:id after its second await
UpdateReply(outcome) ==
    IF Threw(outcome) THEN ErrorPath ELSE ArticleResponse(outcome.value)

\* DELETE /:id after its second await
DeleteReply(outcome) ==
    IF Threw(outcome) THEN ErrorPath ELSE DeletedResponse

\* Faulty variants: the call left out, and a call that stores the record
\* when none has the id.
UpdatesNothing(s, id, data) == s
UpsertsRecord(s, id, data) ==
    IF Exists(s, id) THEN update(s, id, data)
    ELSE Append(s, merged([id |-> id, title |-> "T", authorId |-> ""], data))

\* articleRepository.update(id, data)
ApplyUpdate(s, id, data) == update(s, id, data)

\* Faulty variant: the call left out.
RemovesNothing(s, id) == s

\* articleRepository.delete(id)
ApplyDelete(s, id) == delete(s, id)

\* The record of a completed request.
Done(kind, id, query, data, resp, failed, found, calls, pre) ==
    [kind |-> kind, id |-> id, query |-> query, data |-> data, resp |-> resp,
     failed |-> failed, found |-> found, calls |-> calls, pre |-> pre,
     afterDelete |-> /\ kind = "GET"
                     /\ justDeleted = id]

Suspended(kind, id, data, found, threw) ==
    [kind |-> kind, id |-> id, data |-> data, found |-> found, threw |-> threw]

Idle == [kind |-> "NONE", id |-> EmptyId, query |-> None, data |-> NoData,
         resp |-> NoResponse, failed |-> FALSE, found |-> FALSE,
         calls |-> <<>>, pre |-> <<>>, afterDelete |-> FALSE]

\* Node runs one handler continuation at a time, and the response it returns
\* is handed to Hono before the next continuation starts.
Ready == last = Idle

\* -------------------------------------------------------------------- Init
Init ==
    /\ store = <<>>
    /\ nextId = 1
    /\ inflight = EmptyBag
    /\ last = Idle
    /\ justDeleted = EmptyId
    /\ assigned = {}
    /\ deleted = {}

\* ----------------------------------------------------------------- actions
\* GET /:id
GetById(id) ==
    /\ Ready
    /\ \E ok \in BOOLEAN :
        LET article == findById(store, id)
            outcome == Outcome(ok, article)
        IN  /\ last' = Done("GET", id, None, NoData, GetByIdReply(outcome),
                            ~ok, Exists(store, id), <<"findById">>, store)
            /\ justDeleted' = EmptyId
            /\ UNCHANGED <<store, nextId, inflight, assigned, deleted>>

\* GET /
List(query) ==
    /\ Ready
    /\ \E ok \in BOOLEAN :
        LET authorId == query
            filtered == UseFilter(authorId)
            articles == IF filtered THEN findByAuthorId(store, authorId[1])
                                    ELSE findAll(store)
            outcome == Outcome(ok, articles)
        IN  /\ last' = Done("LIST", EmptyId, query, NoData, ListReply(outcome),
                            ~ok, FALSE,
                            IF filtered THEN <<"findByAuthorId">> ELSE <<"findAll">>,
                            store)
            /\ justDeleted' = EmptyId
            /\ UNCHANGED <<store, nextId, inflight, assigned, deleted>>

\* POST /
Create(body) ==
    /\ Ready
    /\ ValidCreateBody(body)
    /\ nextId <= MaxIds
    /\ \E ok \in BOOLEAN :
        LET data == ArticleWithoutIdSchema(body)
            after == IF ok THEN create(store, nextId, data) ELSE store
            outcome == Outcome(ok, findById(after, nextId))
        IN  /\ store' = after
            /\ nextId' = IF ok THEN nextId + 1 ELSE nextId
            /\ last' = Done("POST", EmptyId, None, data, CreateReply(outcome),
                            ~ok, FALSE, <<"create">>, store)
            /\ justDeleted' = EmptyId
            /\ assigned' = IF CreateReply(outcome).article = None THEN assigned
                           ELSE assigned \cup {CreateReply(outcome).article[1].id}
            /\ UNCHANGED <<inflight, deleted>>

\* PUT /:id up to its second await
PutFind(id, body) ==
    /\ Ready
    /\ ValidUpdateBody(body)
    /\ \E ok \in BOOLEAN :
        LET data == ArticleWithoutIdSchema(body)
            existingArticle == findById(store, id)
            outcome == Outcome(ok, existingArticle)
        IN  IF Threw(outcome) \/ PutNotFound(outcome.value)
            THEN /\ last' = Done("PUT", id, None, NoData,
                                 IF Threw(outcome) THEN ErrorPath ELSE NotFoundResponse,
                                 ~ok, Exists(store, id), <<"findById">>, store)
                 /\ justDeleted' = EmptyId
            /\ UNCHANGED <<store, nextId, inflight, assigned, deleted>>
            ELSE /\ BagCardinality(inflight) < MaxInFlight
                 /\ inflight' = inflight (+) SetToBag({Suspended("PUT", id, data,
                                                        Exists(store, id), ~ok)})
                 /\ justDeleted' = EmptyId
                 /\ UNCHANGED <<store, nextId, last, assigned, deleted>>

\* PUT /:id from its second await on
PutUpdate(r) ==
    /\ Ready
    /\ r.kind = "PUT"
    /\ \E ok \in BOOLEAN :
        LET after == IF ok THEN ApplyUpdate(store, r.id, r.data) ELSE store
            outcome == Outcome(ok, findById(after, r.id))
        IN  /\ store' = after
            /\ last' = Done("PUT", r.id, None, r.data, UpdateReply(outcome),
                            r.threw \/ ~ok, r.found, <<"findById", "update">>, store)
            /\ inflight' = inflight (-) SetToBag({r})
            /\ justDeleted' = EmptyId
            /\ UNCHANGED <<nextId, assigned, deleted>>

\* DELETE /:id up to its second await
DeleteFind(id) ==
    /\ Ready
    /\ \E ok \in BOOLEAN :
        LET existingArticle == findById(store, id)
            outcome == Outcome(ok, existingArticle)
        IN  IF Threw(outcome) \/ DeleteNotFound(outcome.value)
            THEN /\ last' = Done("DELETE", id, None, NoData,
                                 IF Threw(outcome) THEN ErrorPath ELSE NotFoundResponse,
                                 ~ok, Exists(store, id), <<"findById">>, store)
                 /\ justDeleted' = EmptyId
            /\ UNCHANGED <<store, nextId, inflight, assigned, deleted>>
            ELSE /\ BagCardinality(inflight) < MaxInFlight
                 /\ inflight' = inflight (+) SetToBag({Suspended("DELETE", id, NoData,
                                                        Exists(store, id), ~ok)})
                 /\ justDeleted' = EmptyId
                 /\ UNCHANGED <<store, nextId, last, assigned, deleted>>

\* DELETE /:id from its second await on
DeleteAct(r) ==
    /\ Ready
    /\ r.kind = "DELETE"
    /\ \E ok \in BOOLEAN :
        LET after == IF ok THEN ApplyDelete(store, r.id) ELSE store
            outcome == Outcome(ok, None)
        IN  /\ store' = after
            /\ last' = Done("DELETE", r.id, None, NoData, DeleteReply(outcome),
                            r.threw \/ ~ok, r.found, <<"findById", "delete">>, store)
            /\ inflight' = inflight (-) SetToBag({r})
            /\ justDeleted' = EmptyId
            /\ deleted' = IF DeleteReply(outcome) = DeletedResponse
                          THEN deleted \cup {r.id} ELSE deleted
            /\ UNCHANGED <<nextId, assigned>>

\* The response of the completed request leaves the handler (`return c.json(...)`,
\* `return c.text(...)`, or the exception reaching Hono's error handler).
Send ==
    /\ ~Ready
    /\ justDeleted' = IF last.kind = "DELETE" /\ last.resp = DeletedResponse
                      THEN last.id ELSE EmptyId
    /\ last' = Idle
    /\ UNCHANGED <<store, nextId, inflight, assigned, deleted>>

Next ==
    \/ \E id \in Ids : GetById(id)
    \/ \E query \in Queries : List(query)
    \/ \E body \in Bodies : Create(body)
    \/ \E id \in Ids, body \in PutBodies : PutFind(id, body)
    \/ \E r \in BagToSet(inflight) : PutUpdate(r)
    \/ \E id \in Ids : DeleteFind(id)
    \/ \E r \in BagToSet(inflight) : DeleteAct(r)
    \/ Send

Spec == Init /\ [][Next]_vars

\* ---------------------------------------------------------- the properties
ByIdKinds == {"GET", "PUT", "DELETE"}
Acted == Len(last.calls) = 2
NoRepeat(calls) == \A j, k \in DOMAIN calls : j # k => calls[j] # calls[k]
Filter(s, authorId) == SelectSeq(s, LAMBDA a : a.authorId = authorId)

\* C1: a GET, PUT or DELETE of an id that had no record when its findById
\* ran, and whose findById returned, answers 404 with the text
\* "Article not found".
C1_AbsentIdIs404 ==
    (last.kind \in ByIdKinds /\ ~last.found /\ ~last.failed)
        => /\ last.resp.status = 404
           /\ last.resp.text = "Article not found"
           /\ last.resp.article = None

C1_Witness ==
    /\ last.kind = "PUT"
    /\ ~last.found /\ ~last.failed
    /\ last.resp.status = 404
    /\ store # <<>>

\* C2: GET / with an authorId query field A (the empty string included)
\* answers 200 with exactly the records whose author is A, in the order
\* GET / gives them, and without the field it answers with all records.
C2_AuthorFilterIsExact ==
    (last.kind = "LIST" /\ ~last.failed)
        => /\ last.resp.status = 200
           /\ last.resp.articles =
                  IF last.query = None THEN last.pre
                  ELSE Filter(last.pre, last.query[1])

\* C3: a PUT of an id whose record exists when update runs changes the
\* fields its body carries to the body's values and no other field, leaves
\* the id and every other record alone, and answers 200 with the new record.
C3_PutChangesOnlyGivenFields ==
    (last.kind = "PUT" /\ Acted /\ ~last.failed /\ Exists(last.pre, last.id))
        => /\ Exists(store, last.id)
           /\ LET old == RecordOf(last.pre, last.id)
                  new == RecordOf(store, last.id)
              IN  /\ new.id = last.id
                  /\ new.title = IF last.data.title = None THEN old.title
                                 ELSE last.data.title[1]
                  /\ new.authorId = IF last.data.authorId = None THEN old.authorId
                                    ELSE last.data.authorId[1]
                  /\ last.resp.status = 200
                  /\ last.resp.article = Some(new)
           /\ Len(store) = Len(last.pre)
           /\ \A k \in DOMAIN store :
                  last.pre[k].id # last.id => store[k] = last.pre[k]
           /\ last.data.id = None

C3_Witness ==
    /\ last.kind = "PUT" /\ Acted /\ ~last.failed
    /\ Exists(last.pre, last.id)
    /\ last.data.title = Some("T2")
    /\ RecordOf(last.pre, last.id).title = "T"
    /\ RecordOf(last.pre, last.id).authorId = "u1"
    /\ last.resp.article = Some([id |-> last.id, title |-> "T2", authorId |-> "u1"])
    /\ Len(store) = 2

\* C4: a POST whose create returned answers 200 with a record whose id is
\* not empty and was never assigned before, and whose other fields are the
\* submitted ones; the data handed to create carries no id; and no two
\* stored records share an id.
C4_PostAssignsFreshId ==
    /\ (last.kind = "POST" /\ ~last.failed)
          => /\ last.resp.status = 200
             /\ last.resp.article # None
             /\ LET a == last.resp.article[1]
                IN  /\ a.id # EmptyId
                    /\ ~Exists(last.pre, a.id)
                    /\ a.id \notin deleted
                    /\ a.id \in assigned
                    /\ a.title = last.data.title[1]
                    /\ a.authorId = last.data.authorId[1]
                    /\ store = Append(last.pre, a)
    /\ (last.kind = "POST" => last.data.id = None)
    /\ \A j, k \in DOMAIN store : j # k => store[j].id # store[k].id
    /\ Cardinality(assigned) = nextId - 1

C4_Witness ==
    /\ last.kind = "POST" /\ ~last.failed
    /\ Len(last.pre) = 1
    /\ deleted = {}
    /\ last.resp.article # None
    /\ last.resp.article[1].id = 2
    /\ last.pre[1].id = 1

\* C5: a GET of an id whose record exists when findById runs, and whose
\* findById returned, answers 200 with that stored record, whose id is the
\* requested one.
C5_ExistingIdIs200 ==
    (last.kind = "GET" /\ last.found /\ ~last.failed)
        => /\ last.resp.status = 200
           /\ last.resp.article # None
           /\ last.resp.article[1].id = last.id
           /\ \E k \in DOMAIN last.pre : last.pre[k] = last.resp.article[1]

C5_Witness ==
    /\ last.kind = "GET" /\ last.found /\ ~last.failed
    /\ last.resp.status = 200
    /\ last.id = 2
    /\ Len(store) = 2

\* C6: a GET of id i that is the first handler step after the 200 of a
\* DELETE of i was sent answers 404 "Article not found", unless its
\* findById throws.
C6_GetAfterDeleteIs404 ==
    (last.kind = "GET" /\ last.afterDelete /\ ~last.failed)
        => last.resp = NotFoundResponse

C6_Witness ==
    /\ last.kind = "GET" /\ last.afterDelete /\ ~last.failed
    /\ last.resp.status = 404
    /\ last.id \in deleted

\* C7: update and delete are called only by a request whose own findById
\* saw a record, and as its second call; a PUT or DELETE whose findById
\* saw none answers 404 after that single call and leaves the records as
\* they were.
C7_ActOnlyAfterFound ==
    /\ \A r \in BagToSet(inflight) : r.found
    /\ (last.kind \in {"PUT", "DELETE"} /\ Acted)
          => /\ last.found
             /\ last.calls = <<"findById", IF last.kind = "PUT" THEN "update" ELSE "delete">>
    /\ (last.kind \in {"PUT", "DELETE"} /\ ~last.found /\ ~last.failed)
          => /\ last.calls = <<"findById">>
             /\ last.resp.status = 404
             /\ store = last.pre

C7_Witness ==
    /\ last.kind = "DELETE"
    /\ ~last.found /\ ~last.failed
    /\ last.calls = <<"findById">>
    /\ Len(store) = 1
    /\ deleted # {}

\* C8: a PUT or DELETE whose findById saw the record, and whose update or
\* delete returned, answers 200 also when the record was gone by the time
\* update or delete ran (another request's delete ran in between).
C8_RaceStillAnswers200 ==
    (last.kind \in {"PUT", "DELETE"} /\ Acted /\ last.found /\ ~last.failed
        /\ ~Exists(last.pre, last.id))
        => /\ last.resp.status = 200
           /\ last.kind = "DELETE" => last.resp = DeletedResponse

C8_Witness ==
    /\ last.kind = "DELETE" /\ Acted /\ last.found /\ ~last.failed
    /\ ~Exists(last.pre, last.id)
    /\ last.id \in deleted
    /\ last.resp = DeletedResponse

\* C9: a request one of whose repository calls threw ends in the error path:
\* its response is neither a 200 nor the 404 "Article not found" and carries
\* no success body, it issued no call twice, and no request whose findById
\* threw goes on to update or delete.
C9_FailurePropagates ==
    /\ \A r \in BagToSet(inflight) : ~r.threw
    /\ last.failed
          => /\ last.resp.status \notin {200, 404}
             /\ last.resp.text # "Article not found"
             /\ last.resp.article = None
             /\ last.resp.articles = <<>>
             /\ last.resp.message = ""
             /\ NoRepeat(last.calls)

C9_Witness ==
    /\ last.failed
    /\ last.kind = "PUT"
    /\ last.calls = <<"findById">>
    /\ last.found
    /\ last.resp.status = 500

\* C10: once a DELETE of id i has answered 200, no record with id i exists
\* again, and every later GET of i whose findById returns answers 404.
C10_DeletedStaysDeleted ==
    /\ \A i \in deleted : ~Exists(store, i)
    /\ (last.kind = "GET" /\ last.id \in deleted /\ ~last.failed)
          => last.resp = NotFoundResponse

C10_Witness ==
    /\ last.kind = "GET" /\ ~last.failed
    /\ last.id \in deleted
    /\ ~last.afterDelete
    /\ Len(store) = 1
    /\ nextId > MaxIds
    /\ inflight # EmptyBag
====
